---- MODULE Spec2Model ----
(***************************************************************************)
(* State-machine model of the Kani TTS WebSocket server                    *)
(* (src/websocket_server.py): one asyncio event loop multiplexing the      *)
(* handle_client coroutines of several connections, the Generator called   *)
(* directly (tts_request) or on a threading.Thread that hands events over  *)
(* a queue.Queue (tts_stream_request).                                     *)
(*                                                                         *)
(* A float sample x is represented by the integer s with x = s / SampleDen.*)
(* A float duration is represented by the pair <<num, den>> (num / den).   *)
(***************************************************************************)
EXTENDS Integers, Sequences, FiniteSets, TLC

\* ------------------------------------------------------------------ bounds
MaxConns == 2      \* connections accepted by the server
MaxMsgs == 2       \* client messages sent in one run, over all connections
MaxChunks == 2     \* sink invocations of one Generator call

Conns == 1..MaxConns

\* ------------------------------------------------------- program constants
SAMPLE_RATE == 22050

\* chunk_queue.get(timeout=30): the 30 seconds, in ticks of 15 s
TimeoutTicks == 2
PCM_SCALE == 32767
SampleDen == 2

\* The k-th batch of samples the external writer produces in one generation:
\* <<0.5>>, then <<1.0, -1.5>>, then <<1.0, -1.5, -2.0>>, ... The batches differ
\* in length and content, and from the second on hold samples outside [-1, 1].
ChunkAt(k) == IF k = 1 THEN <<1>> ELSE [i \in 1..k |-> IF i = 1 THEN 2 ELSE -(i + 1)]

\* ----------------------------------------------------------- pure helpers
Last(s) == s[Len(s)]

RECURSIVE Flatten(_)
Flatten(ss) == IF ss = <<>> THEN <<>> ELSE Head(ss) \o Flatten(Tail(ss))

\* np.concatenate(audio_writer.audio_chunks)
Concatenate(chunks) == Flatten(chunks)

\* C-style float -> integer conversion: truncation toward zero
Trunc(a, b) == IF a >= 0 THEN a \div b ELSE -((-a) \div b)

\* two's-complement wrap of an integer into 16 bits
WrapInt16(v) == ((v + 32768) % 65536) - 32768

SaturateInt16(v) == IF v > 32767 THEN 32767 ELSE IF v < -32768 THEN -32768 ELSE v

\* (data * 32767).astype(np.int16) for one sample: in range the cast
\* truncates; out of range the cast is undefined in C, the build either
\* wraps modulo 2^16 or saturates.
PCM16Outcomes(s) ==
  LET v == Trunc(s * PCM_SCALE, SampleDen)
  IN  IF v >= -32768 /\ v <= 32767 THEN {v} ELSE {WrapInt16(v), SaturateInt16(v)}

\* all int16 arrays the conversion of one chunk can give
RECURSIVE PCM16Arrays(_)
PCM16Arrays(data) ==
  IF data = <<>> THEN { <<>> }
  ELSE { <<v>> \o rest : v \in PCM16Outcomes(Head(data)), rest \in PCM16Arrays(Tail(data)) }

\* scipy.io.wavfile.write: bytes per sample of the array's dtype, and the
\* header it writes before the samples (PCM: 44 bytes; IEEE float: 58 bytes)
SampleWidths == {4, 8}
WavHeaderLen(w) == IF w = 2 THEN 44 ELSE 58
WavLen(w, n) == WavHeaderLen(w) + w * n

\* ------------------------------------------------------------ wire messages
\* Messages a client may put on a connection: a text frame that is not JSON
\* (type ""), a binary frame whose bytes are not text in any encoding
\* json.loads detects (type "bytes"), or a JSON envelope with a type and (for
\* the two request types) a text that is non-empty or absent/empty.
Inbound ==
  { [valid |-> FALSE, type |-> t, hasText |-> FALSE] : t \in {"", "bytes"} } \cup
  { [valid |-> TRUE, type |-> t, hasText |-> FALSE] : t \in {"ping", "bogus"} } \cup
  { [valid |-> TRUE, type |-> t, hasText |-> h] :
      t \in {"tts_request", "tts_stream_request"}, h \in BOOLEAN }

Envelope(type, status, message, audio, nbytes, dur, init, r) ==
  [type |-> type, status |-> status, message |-> message, audio |-> audio,
   nbytes |-> nbytes, dur |-> dur, init |-> init, req |-> r]

\* _send_error's envelope
ErrorEnvelope(message, r) ==
  Envelope("tts_response", "error", message, <<>>, 0, <<0, 1>>, FALSE, r)

PongNotInitialized(init, r) ==
  Envelope("pong", "alive", "", <<>>, 0, <<0, 1>>, FALSE, r)

\* the pong of handle_client
Pong(init, r) == Envelope("pong", "alive", "", <<>>, 0, <<0, 1>>, init, r)

\* the success response of handle_tts_request: audio_data is the WAV file of
\* full_audio, metadata.duration is len(audio_data) / (SAMPLE_RATE * 2)
SuccessResponse(full_audio, w, r) ==
  LET len == WavLen(w, Len(full_audio))
  IN  Envelope("tts_response", "success", "Audio generated successfully",
               full_audio, len, <<len, SAMPLE_RATE * 2>>, FALSE, r)

\* one tts_stream_chunk: chunk_bytes is the int16 array's bytes,
\* metadata.duration is len(data) / SAMPLE_RATE
StreamChunk(pcm, data, r) ==
  Envelope("tts_stream_chunk", "streaming", "", pcm, 2 * Len(pcm),
           <<Len(data), SAMPLE_RATE>>, FALSE, r)

StreamComplete(r) ==
  Envelope("tts_stream_complete", "completed", "Audio streaming completed",
           <<>>, 0, <<0, 1>>, FALSE, r)

\* ------------------------------------------------------------------- state
VARIABLES
  server,       \* main(): "starting", "serving" or "failed"
  generator,    \* tts_handler.generator: 0 for None, else the k-th TTSGenerator built
  player,       \* tts_handler.player: 0 for None, else built on the tokenizer of generator k
  initialized,  \* tts_handler.initialized
  open,         \* open[c]: the server has not yet seen connection c closed by its peer
  inbox,        \* inbox[c]: messages received on c and not yet read
  nmsgs,        \* client messages sent so far
  pc,           \* pc[c]: where the handle_client coroutine of c stands
  loop,         \* the connection whose coroutine holds the event-loop thread, 0: none
  cur,          \* cur[c]: number of messages read on c (the current message's index)
  tasks,        \* tasks[c]: one record per generation started on c, in order
  out,          \* out[c]: messages sent on c, in order
  config_data,  \* the "config" object of a request
  config,       \* <<>>, or the TTSConfig last built from config_data
  waited,       \* ticks the chunk_queue.get that blocks the loop has waited so far
  rx,           \* KaniTTSClient: messages the server has sent and the client not yet received
  closing,      \* how the connection ends once rx is received: "open", "ok" or "error"
  seen,         \* messages stream_tts_request has received, in order
  calls,        \* invocations of chunk_callback, in order
  result        \* "pending", or what stream_tts_request returned

\* the global tts_handler
tts_handler == <<generator, player, initialized>>

request_config == <<config_data, config>>

\* a KaniTTSClient inside stream_tts_request
client == <<rx, closing, seen, calls, result>>

vars == <<server, tts_handler, open, inbox, nmsgs, pc, loop, cur, tasks, out,
          request_config, waited, client>>

\* A generation: the audio_writer, the Generator call and, for a streaming
\* request, the thread and the queue.
NewTask(kind, r) ==
  [kind |-> kind, req |-> r,
   thread |-> IF kind = "stream" THEN "worker" ELSE "loop",
   alive |-> kind = "stream",   \* gen_thread started and not yet ended
   gen |-> "running",           \* the generate() call: running, returned, raised, stalled
   chunks |-> <<>>,             \* audio_writer.audio_chunks
   q |-> <<>>,                  \* chunk_queue
   pushed |-> <<>>,             \* every event put on chunk_queue so far
   reason |-> "",               \* str(e) of the exception generate() raised
   slow |-> FALSE,              \* some get returned an event after a tick or more
   timedout |-> FALSE]          \* the consumer's wait has hit queue.Empty

Task(c) == Last(tasks[c])

TypeOK ==
  /\ server \in {"starting", "serving", "failed"}
  /\ generator \in 0..(MaxMsgs + 1)
  /\ player \in 0..(MaxMsgs + 1)
  /\ initialized \in BOOLEAN
  /\ open \in [Conns -> BOOLEAN]
  /\ \A c \in Conns : \A i \in DOMAIN inbox[c] : inbox[c][i] \in Inbound
  /\ nmsgs \in 0..MaxMsgs
  /\ pc \in [Conns -> {"recv", "generate", "get", "join", "unwind", "closed"}]
  /\ loop \in {0} \cup Conns
  /\ cur \in [Conns -> 0..MaxMsgs]
  /\ waited \in 0..TimeoutTicks

\* tts_handler = WebSocketTTSHandler(): nothing built yet, no connection yet
ServerInit ==
  /\ server = "starting"
  /\ generator = 0
  /\ player = 0
  /\ initialized = FALSE
  /\ open = [c \in Conns |-> TRUE]
  /\ inbox = [c \in Conns |-> <<>>]
  /\ nmsgs = 0
  /\ pc = [c \in Conns |-> "recv"]
  /\ loop = 0
  /\ cur = [c \in Conns |-> 0]
  /\ tasks = [c \in Conns |-> <<>>]
  /\ out = [c \in Conns |-> <<>>]
  /\ waited = 0

\* no client call in progress
NoClient ==
  /\ rx = <<>> /\ closing = "open" /\ seen = <<>> /\ calls = <<>>
  /\ result = "pending"

Init ==
  /\ ServerInit
  /\ config_data = <<>>
  /\ config = <<>>
  /\ NoClient

\* ---------------------------------------- WebSocketTTSHandler.initialize
InitOutcomesNoGuard == {"constructed", "generator_raised", "player_raised"}

\* "if not self.initialized": nothing to do once initialized; otherwise
\* TTSGenerator() and then LLMAudioPlayer(...) run, and either may raise.
InitOutcomes ==
  IF initialized THEN {"skip"}
  ELSE {"constructed", "generator_raised", "player_raised"}

InitRaised(o) == o \in {"generator_raised", "player_raised"}

\* The body of initialize() with outcome o. It has no await, so it runs to
\* its end on the event-loop thread; an exception leaves behind whatever was
\* assigned before it.
Initialize(o) ==
  /\ generator' = IF o \in {"constructed", "player_raised"}
                  THEN generator + 1 ELSE generator
  /\ player' = IF o = "constructed" THEN generator + 1 ELSE player
  /\ initialized' = IF o = "constructed" THEN TRUE ELSE initialized

\* ------------------------------------------------------------------ main()
\* main() going on to websockets.serve although initialize() raised
MainInitializeServesAnyway ==
  /\ server = "starting"
  /\ \E o \in InitOutcomes :
       /\ Initialize(o)
       /\ server' = "serving"
  /\ UNCHANGED <<client, request_config, waited, open, inbox, nmsgs, pc, loop, cur, tasks, out>>

\* main: await tts_handler.initialize(), then websockets.serve(...). A
\* constructor that raises ends main before any connection is accepted.
MainInitialize ==
  /\ server = "starting"
  /\ \E o \in InitOutcomes :
       /\ Initialize(o)
       /\ server' = IF InitRaised(o) THEN "failed" ELSE "serving"
  /\ UNCHANGED <<client, request_config, waited, open, inbox, nmsgs, pc, loop, cur, tasks, out>>

\* ---------------------------------------------------------------- TTSConfig
\* The defaults the server imports from the module config. Non-integer
\* numbers are written as their decimal text.
TEMPERATURE == "0.6"
MAX_TOKENS == 1200
TOP_P == "0.95"
CHUNK_SIZE == 25
LOOKBACK_FRAMES == 15

ConfigFields ==
  {"temperature", "max_tokens", "top_p", "chunk_size", "lookback_frames",
   "language", "emotion", "speed", "voice_id"}

\* a key TTSConfig never reads
UnknownField == "pitch"

\* the value a request gives to a field it specifies
RequestValue(f) ==
  CASE f = "temperature" -> "0.9"
    [] f = "max_tokens" -> 600
    [] f = "top_p" -> "0.5"
    [] f = "chunk_size" -> 10
    [] f = "lookback_frames" -> 5
    [] f = "language" -> "english"
    [] f = "emotion" -> "happy"
    [] f = "speed" -> "1.5"
    [] f = "voice_id" -> "voice-2"
    [] f = UnknownField -> "high"

\* data.get("config", {}) of the requests: every subset of the nine fields,
\* with and without an unknown extra field
ConfigInputs ==
  { [f \in S |-> RequestValue(f)] : S \in SUBSET (ConfigFields \cup {UnknownField}) }

\* dict.get(key, default)
Get(data, key, default) == IF key \in DOMAIN data THEN data[key] ELSE default

TTSConfigSharedDefault(data) ==
  [temperature |-> Get(data, "temperature", TEMPERATURE),
   max_tokens |-> Get(data, "max_tokens", MAX_TOKENS),
   top_p |-> Get(data, "top_p", TEMPERATURE),
   chunk_size |-> Get(data, "chunk_size", CHUNK_SIZE),
   lookback_frames |-> Get(data, "lookback_frames", LOOKBACK_FRAMES),
   language |-> Get(data, "language", "spanish"),
   emotion |-> Get(data, "emotion", "neutral"),
   speed |-> Get(data, "speed", "1.0"),
   voice_id |-> Get(data, "voice_id", "default")]

\* TTSConfig.__init__
TTSConfig(data) ==
  [temperature |-> Get(data, "temperature", TEMPERATURE),
   max_tokens |-> Get(data, "max_tokens", MAX_TOKENS),
   top_p |-> Get(data, "top_p", TOP_P),
   chunk_size |-> Get(data, "chunk_size", CHUNK_SIZE),
   lookback_frames |-> Get(data, "lookback_frames", LOOKBACK_FRAMES),
   language |-> Get(data, "language", "spanish"),
   emotion |-> Get(data, "emotion", "neutral"),
   speed |-> Get(data, "speed", "1.0"),
   voice_id |-> Get(data, "voice_id", "default")]

\* ------------------------------------------------------------------ client
ClientSend(c, m) ==
  /\ server = "serving"
  /\ open[c]
  /\ nmsgs < MaxMsgs
  /\ inbox' = [inbox EXCEPT ![c] = Append(@, m)]
  /\ nmsgs' = nmsgs + 1
  /\ UNCHANGED <<client, request_config, waited, server, tts_handler, open, pc, loop, cur, tasks, out>>

\* ---------------------------------------------------------- handle_client
\* await websocket.send(...): either the message goes out and the coroutine
\* goes on at okPc, or the peer has closed the connection, send raises
\* ConnectionClosed and the coroutine goes on at failPc; a closed connection
\* stays closed. Either way the await gives the event-loop thread back, and
\* no get is waiting: the next one starts its window anew.
SameWindow(w) == w

\* every chunk_queue.get(timeout=30) call has its own window: the time an
\* earlier call has waited does not count for the next one
NewWindow(w) == 0

SendOutcomes(c) == IF open[c] THEN {TRUE, FALSE} ELSE {FALSE}

Send(c, msg, okPc, failPc) ==
  \E sent \in SendOutcomes(c) :
    /\ out' = [out EXCEPT ![c] = IF sent THEN Append(@, msg) ELSE @]
    /\ pc' = [pc EXCEPT ![c] = IF sent THEN okPc ELSE failPc]
    /\ open' = [open EXCEPT ![c] = sent]
    /\ loop' = 0
    /\ waited' = NewWindow(waited)

\* One iteration of "async for message in websocket" starts: the coroutine
\* is resumed with the next message of the connection.
Reads(c) ==
  /\ server = "serving"
  /\ pc[c] = "recv"
  /\ loop = 0
  /\ inbox[c] # <<>>
  /\ inbox' = [inbox EXCEPT ![c] = Tail(@)]
  /\ cur' = [cur EXCEPT ![c] = @ + 1]

\* json.loads(message) raises: JSONDecodeError on text that is not JSON, which
\* "except json.JSONDecodeError" reports; UnicodeDecodeError (a ValueError,
\* not a JSONDecodeError) on bytes it cannot decode, which "except Exception"
\* reports with str(e).
DecodeErrorMessage(m) ==
  IF m.type = "bytes" THEN "codec can't decode byte" ELSE "Invalid JSON format"

ReceiveInvalid(c) ==
  /\ Reads(c)
  /\ ~Head(inbox[c]).valid
  /\ Send(c, ErrorEnvelope(DecodeErrorMessage(Head(inbox[c])), cur[c] + 1),
          "recv", "closed")
  /\ UNCHANGED <<client, request_config, server, tts_handler, nmsgs, tasks>>

ReceivePing(c) ==
  /\ Reads(c)
  /\ Head(inbox[c]).valid
  /\ Head(inbox[c]).type = "ping"
  /\ Send(c, Pong(initialized, cur[c] + 1), "recv", "closed")
  /\ UNCHANGED <<client, request_config, server, tts_handler, nmsgs, tasks>>

ReceiveUnknownSpawns(c) ==
  /\ Reads(c)
  /\ Head(inbox[c]).valid
  /\ Head(inbox[c]).type \notin {"tts_request", "tts_stream_request", "ping"}
  /\ Send(c, ErrorEnvelope("Unknown message type", cur[c] + 1), "get", "closed")
  /\ tasks' = [tasks EXCEPT ![c] = Append(@, NewTask("stream", cur[c] + 1))]
  /\ UNCHANGED <<client, request_config, server, tts_handler, nmsgs>>

\* the else branch of the dispatch: f"Unknown message type: {message_type}"
ReceiveUnknown(c) ==
  /\ Reads(c)
  /\ Head(inbox[c]).valid
  /\ Head(inbox[c]).type \notin {"tts_request", "tts_stream_request", "ping"}
  /\ Send(c, ErrorEnvelope("Unknown message type", cur[c] + 1), "recv", "closed")
  /\ UNCHANGED <<client, request_config, server, tts_handler, nmsgs, tasks>>

ReceiveNoTextAfterConfig(c) ==
  /\ Reads(c)
  /\ Head(inbox[c]).valid
  /\ Head(inbox[c]).type \in {"tts_request", "tts_stream_request"}
  /\ ~Head(inbox[c]).hasText
  /\ Send(c, ErrorEnvelope("No text provided", cur[c] + 1), "recv", "closed")
  /\ config' = <<TTSConfig(config_data)>>
  /\ UNCHANGED <<client, config_data, server, tts_handler, nmsgs, tasks>>

ReceiveNoTextNoReturn(c) ==
  /\ Reads(c)
  /\ Head(inbox[c]).valid
  /\ Head(inbox[c]).type \in {"tts_request", "tts_stream_request"}
  /\ ~Head(inbox[c]).hasText
  /\ Send(c, ErrorEnvelope("No text provided", cur[c] + 1), "get", "closed")
  /\ tasks' = [tasks EXCEPT ![c] = Append(@, NewTask("stream", cur[c] + 1))]
  /\ UNCHANGED <<client, request_config, server, tts_handler, nmsgs>>

\* handle_tts_request / handle_streaming_request: "if not text"
ReceiveNoText(c) ==
  /\ Reads(c)
  /\ Head(inbox[c]).valid
  /\ Head(inbox[c]).type \in {"tts_request", "tts_stream_request"}
  /\ ~Head(inbox[c]).hasText
  /\ Send(c, ErrorEnvelope("No text provided", cur[c] + 1), "recv", "closed")
  /\ UNCHANGED <<client, request_config, server, tts_handler, nmsgs, tasks>>

\* handle_tts_request with a text: TTSConfig, initialize, then
\* _generate_audio calls self.generator.generate(...) in the coroutine itself.
ReceiveTts(c) ==
  /\ Reads(c)
  /\ Head(inbox[c]).valid
  /\ Head(inbox[c]).type = "tts_request"
  /\ Head(inbox[c]).hasText
  /\ \E o \in InitOutcomes :
       /\ Initialize(o)
       /\ IF InitRaised(o)
          THEN /\ Send(c, ErrorEnvelope("initialize failed", cur[c] + 1),
                       "recv", "closed")
               /\ UNCHANGED tasks
          ELSE /\ tasks' = [tasks EXCEPT
                             ![c] = Append(@, NewTask("full", cur[c] + 1))]
               /\ pc' = [pc EXCEPT ![c] = "generate"]
               /\ loop' = c
               /\ UNCHANGED <<out, open, waited>>
  /\ config' = <<TTSConfig(config_data)>>
  /\ UNCHANGED <<client, config_data, server, nmsgs>>

\* handle_streaming_request with a text: TTSConfig, initialize, then
\* _stream_audio creates the queue, starts gen_thread and enters the loop
\* at chunk_queue.get(timeout=30) without an await in between.
ReceiveStream(c) ==
  /\ Reads(c)
  /\ Head(inbox[c]).valid
  /\ Head(inbox[c]).type = "tts_stream_request"
  /\ Head(inbox[c]).hasText
  /\ \E o \in InitOutcomes :
       /\ Initialize(o)
       /\ IF InitRaised(o)
          THEN /\ Send(c, ErrorEnvelope("initialize failed", cur[c] + 1),
                       "recv", "closed")
               /\ UNCHANGED tasks
          ELSE /\ tasks' = [tasks EXCEPT
                             ![c] = Append(@, NewTask("stream", cur[c] + 1))]
               /\ pc' = [pc EXCEPT ![c] = "get"]
               /\ loop' = c
               /\ UNCHANGED <<out, open, waited>>
  /\ config' = <<TTSConfig(config_data)>>
  /\ UNCHANGED <<client, config_data, server, nmsgs>>

\* The peer closes the connection while the coroutine awaits the next
\* message and nothing is left to read: the read loop ends.
HandlerClose(c) ==
  /\ server = "serving"
  /\ pc[c] = "recv"
  /\ loop = 0
  /\ inbox[c] = <<>>
  /\ pc' = [pc EXCEPT ![c] = "closed"]
  /\ open' = [open EXCEPT ![c] = FALSE]
  /\ UNCHANGED <<client, request_config, waited, server, tts_handler, inbox, nmsgs, loop, cur, tasks, out>>

\* ------------------------------------------------- _generate_audio (full)
SetTask(c, i, t) == tasks' = [tasks EXCEPT ![c][i] = t]

NoAudioInverted(chunks) == chunks # <<>>

\* "if not audio_writer.audio_chunks"
NoAudio(chunks) == chunks = <<>>

\* The Generator, running on the event-loop thread, hands one chunk to the
\* writer, which appends it to the plain list audio_chunks.
FullSink(c) ==
  /\ pc[c] = "generate" /\ loop = c
  /\ Task(c).gen = "running"
  /\ Len(Task(c).chunks) < MaxChunks
  /\ SetTask(c, Len(tasks[c]),
             [Task(c) EXCEPT !.chunks = Append(@, ChunkAt(Len(@) + 1))])
  /\ UNCHANGED <<client, request_config, waited, server, tts_handler, open, inbox, nmsgs, pc, loop, cur, out>>

\* generate() returns: finalize, then either "No audio generated" is raised
\* and reported by handle_tts_request's except, or the WAV file of the
\* concatenated chunks is sent as the success response.
FullReturn(c) ==
  /\ pc[c] = "generate" /\ loop = c
  /\ Task(c).gen = "running"
  /\ SetTask(c, Len(tasks[c]), [Task(c) EXCEPT !.gen = "returned"])
  /\ IF NoAudio(Task(c).chunks)
     THEN Send(c, ErrorEnvelope("No audio generated", cur[c]), "recv", "closed")
     ELSE \E w \in SampleWidths :
            Send(c, SuccessResponse(Concatenate(Task(c).chunks), w, cur[c]),
                 "recv", "closed")
  /\ UNCHANGED <<client, request_config, server, tts_handler, inbox, nmsgs, cur>>

\* str(e) of the exceptions a generate() call raises
Reasons == {"out of memory", "model failure"}

\* generate() raises: handle_tts_request's except reports str(e)
FullRaise(c) ==
  /\ pc[c] = "generate" /\ loop = c
  /\ Task(c).gen = "running"
  /\ \E e \in Reasons :
       /\ SetTask(c, Len(tasks[c]),
                  [Task(c) EXCEPT !.gen = "raised", !.reason = e])
       /\ Send(c, ErrorEnvelope(e, cur[c]), "recv", "closed")
  /\ UNCHANGED <<client, request_config, server, tts_handler, inbox, nmsgs, cur>>

\* generate() never returns
FullStall(c) ==
  /\ pc[c] = "generate" /\ loop = c
  /\ Task(c).gen = "running"
  /\ SetTask(c, Len(tasks[c]), [Task(c) EXCEPT !.gen = "stalled"])
  /\ UNCHANGED <<client, request_config, waited, server, tts_handler, open, inbox, nmsgs, pc, loop, cur, out>>

\* --------------------------------------------- _stream_audio: the worker
ChunkEvent(data) == [tag |-> "chunk", data |-> data]
DoneEvent == [tag |-> "done", data |-> <<>>]
ErrorEvent(e) == [tag |-> "error", data |-> e]

QueuePutFront(q, ev) == <<ev>> \o q

\* queue.Queue: put at the back, get from the front
QueuePut(q, ev) == Append(q, ev)
QueueFront(q) == Head(q)
QueueRest(q) == Tail(q)

IsWorkerUntilDrop(c, i) ==
  /\ i \in DOMAIN tasks[c]
  /\ tasks[c][i].thread = "worker"
  /\ tasks[c][i].alive
  /\ tasks[c][i].gen = "running"
  /\ pc[c] # "unwind"

\* gen_thread of task i of c is inside generator.generate(...): nothing but
\* the call's own end stops it
IsWorker(c, i) ==
  /\ i \in DOMAIN tasks[c]
  /\ tasks[c][i].thread = "worker"
  /\ tasks[c][i].alive
  /\ tasks[c][i].gen = "running"

\* ChunkList.append, called by the writer on gen_thread
WorkerSink(c, i) ==
  /\ IsWorker(c, i)
  /\ Len(tasks[c][i].chunks) < MaxChunks
  /\ LET ch == ChunkAt(Len(tasks[c][i].chunks) + 1)
     IN  SetTask(c, i, [tasks[c][i] EXCEPT !.chunks = Append(@, ch),
                                           !.q = QueuePut(@, ChunkEvent(ch)),
                                           !.pushed = Append(@, ChunkEvent(ch))])
  /\ UNCHANGED <<client, request_config, waited, server, tts_handler, open, inbox, nmsgs, pc, loop, cur, out>>

\* generate() returns on gen_thread: finalize, put ("done", None), thread ends
WorkerReturn(c, i) ==
  /\ IsWorker(c, i)
  /\ SetTask(c, i, [tasks[c][i] EXCEPT !.gen = "returned", !.alive = FALSE,
                                       !.q = QueuePut(@, DoneEvent),
                                       !.pushed = Append(@, DoneEvent)])
  /\ UNCHANGED <<client, request_config, waited, server, tts_handler, open, inbox, nmsgs, pc, loop, cur, out>>

WorkerRaisePutsDoneToo(c, i) ==
  /\ IsWorker(c, i)
  /\ \E e \in Reasons :
       SetTask(c, i, [tasks[c][i] EXCEPT
                        !.gen = "raised", !.alive = FALSE, !.reason = e,
                        !.q = QueuePut(QueuePut(@, ErrorEvent(e)), DoneEvent),
                        !.pushed = Append(Append(@, ErrorEvent(e)), DoneEvent)])
  /\ UNCHANGED <<client, request_config, waited, server, tts_handler, open, inbox, nmsgs, pc, loop, cur, out>>

\* generate() raises on gen_thread: put ("error", str(e)), thread ends
WorkerRaise(c, i) ==
  /\ IsWorker(c, i)
  /\ \E e \in Reasons :
       SetTask(c, i, [tasks[c][i] EXCEPT !.gen = "raised", !.alive = FALSE,
                                         !.reason = e,
                                         !.q = QueuePut(@, ErrorEvent(e)),
                                         !.pushed = Append(@, ErrorEvent(e))])
  /\ UNCHANGED <<client, request_config, waited, server, tts_handler, open, inbox, nmsgs, pc, loop, cur, out>>

\* generate() never returns: gen_thread stays alive and pushes nothing more
WorkerStall(c, i) ==
  /\ IsWorker(c, i)
  /\ SetTask(c, i, [tasks[c][i] EXCEPT !.gen = "stalled"])
  /\ UNCHANGED <<client, request_config, waited, server, tts_handler, open, inbox, nmsgs, pc, loop, cur, out>>

\* ------------------------------------------- _stream_audio: the consumer
StreamErrorMessageGeneric(e) == "Audio generation failed"

\* f"Generation error: {data}"
StreamErrorMessage(e) ==
  CASE e = "out of memory" -> "Generation error: out of memory"
    [] e = "model failure" -> "Generation error: model failure"

StreamNextPcSkipsJoin(tag) == IF tag = "chunk" THEN "get" ELSE "recv"

StreamNextPcNoBreakOnError(tag) == IF tag = "done" THEN "join" ELSE "get"

\* where the while loop goes after an event: on to the next get, or (break)
\* to the finally clause
StreamNextPc(tag) == IF tag = "chunk" THEN "get" ELSE "join"

AfterTimeoutNoBreak == "get"

\* "except queue.Empty: ...; break"
AfterTimeoutPc == "join"

ThreadJoinedNoWait(t) == TRUE

\* gen_thread.join() returns once the thread has ended
ThreadJoined(t) == ~t.alive

QueueIndexFirst(c) == 1

\* chunk_queue is a local variable of the _stream_audio call: the consumer
\* of c reads the queue of the generation its current request started
QueueIndex(c) == Len(tasks[c])

ConsumerQueue(c) == tasks[c][QueueIndex(c)].q

\* chunk_queue.get returns an event at once (the coroutine takes the loop
\* thread if it was suspended in a send); the event is turned into a message.
Gets(c, tag) ==
  /\ pc[c] = "get"
  /\ loop \in {0, c}
  /\ ConsumerQueue(c) # <<>>
  /\ QueueFront(ConsumerQueue(c)).tag = tag
  /\ SetTask(c, QueueIndex(c),
             [tasks[c][QueueIndex(c)] EXCEPT !.q = QueueRest(@),
                                             !.slow = @ \/ waited >= 1])

GetChunk(c) ==
  /\ Gets(c, "chunk")
  /\ LET data == QueueFront(ConsumerQueue(c)).data
     IN  \E pcm \in PCM16Arrays(data) :
           Send(c, StreamChunk(pcm, data, cur[c]), StreamNextPc("chunk"), "unwind")
  /\ UNCHANGED <<client, request_config, server, tts_handler, inbox, nmsgs, cur>>

GetDone(c) ==
  /\ Gets(c, "done")
  /\ Send(c, StreamComplete(cur[c]), StreamNextPc("done"), "unwind")
  /\ UNCHANGED <<client, request_config, server, tts_handler, inbox, nmsgs, cur>>

GetErrorReportedTwice(c) ==
  /\ Gets(c, "error")
  /\ out' = [out EXCEPT ![c] =
               @ \o <<ErrorEnvelope(StreamErrorMessage(QueueFront(ConsumerQueue(c)).data), cur[c]),
                      ErrorEnvelope("Audio streaming failed", cur[c])>>]
  /\ pc' = [pc EXCEPT ![c] = "join"]
  /\ loop' = 0
  /\ waited' = 0
  /\ UNCHANGED <<client, request_config, server, tts_handler, open, inbox, nmsgs, cur>>

GetError(c) ==
  /\ Gets(c, "error")
  /\ Send(c, ErrorEnvelope(StreamErrorMessage(QueueFront(ConsumerQueue(c)).data), cur[c]),
          StreamNextPc("error"), "unwind")
  /\ UNCHANGED <<client, request_config, server, tts_handler, inbox, nmsgs, cur>>

\* chunk_queue.get(timeout=30) finds the queue empty: the call blocks, and the
\* coroutine keeps the event-loop thread while it does.
BlockOnGet(c) ==
  /\ pc[c] = "get"
  /\ loop = 0
  /\ ConsumerQueue(c) = <<>>
  /\ loop' = c
  /\ UNCHANGED <<client, request_config, waited, server, tts_handler, open, inbox, nmsgs, pc, cur, tasks, out>>

\* time passes while the get is blocked on the empty queue
Tick(c) ==
  /\ pc[c] = "get"
  /\ loop = c
  /\ ConsumerQueue(c) = <<>>
  /\ waited < TimeoutTicks
  /\ waited' = waited + 1
  /\ UNCHANGED <<client, request_config, server, tts_handler, open, inbox, nmsgs, pc, loop,
                 cur, tasks, out>>

\* the blocked get raises queue.Empty after 30 s without an event
Timeout(c) ==
  /\ pc[c] = "get"
  /\ loop = c
  /\ ConsumerQueue(c) = <<>>
  /\ waited = TimeoutTicks
  /\ SetTask(c, Len(tasks[c]), [Task(c) EXCEPT !.timedout = TRUE])
  /\ Send(c, ErrorEnvelope("Generation timeout", cur[c]), AfterTimeoutPc, "unwind")
  /\ UNCHANGED <<client, request_config, server, tts_handler, inbox, nmsgs, cur>>

\* finally: gen_thread.join() on a thread that is still alive blocks, and the
\* coroutine keeps the event-loop thread while it does.
BlockOnJoin(c) ==
  /\ pc[c] \in {"join", "unwind"}
  /\ loop = 0
  /\ ~ThreadJoined(Task(c))
  /\ loop' = c
  /\ UNCHANGED <<client, request_config, waited, server, tts_handler, open, inbox, nmsgs, pc, cur, tasks, out>>

\* join returns: the handler returns to the read loop, or, when a send raised
\* ConnectionClosed, the exception leaves the read loop (every _send_error on
\* its way raises again) and the coroutine ends.
Join(c) ==
  /\ pc[c] \in {"join", "unwind"}
  /\ loop \in {0, c}
  /\ ThreadJoined(Task(c))
  /\ pc' = [pc EXCEPT ![c] = IF pc[c] = "join" THEN "recv" ELSE "closed"]
  /\ loop' = 0
  /\ UNCHANGED <<client, request_config, waited, server, tts_handler, open, inbox, nmsgs, cur, tasks, out>>

\* ------------------------------------------------------------ specification
Next ==
  \/ MainInitialize
  \/ \E c \in Conns : \E m \in Inbound : ClientSend(c, m)
  \/ \E c \in Conns : ReceiveInvalid(c)
  \/ \E c \in Conns : ReceivePing(c)
  \/ \E c \in Conns : ReceiveUnknown(c)
  \/ \E c \in Conns : ReceiveNoText(c)
  \/ \E c \in Conns : ReceiveTts(c)
  \/ \E c \in Conns : ReceiveStream(c)
  \/ \E c \in Conns : HandlerClose(c)
  \/ \E c \in Conns : FullSink(c)
  \/ \E c \in Conns : FullReturn(c)
  \/ \E c \in Conns : FullRaise(c)
  \/ \E c \in Conns : FullStall(c)
  \/ \E c \in Conns : \E i \in 1..MaxMsgs : WorkerSink(c, i)
  \/ \E c \in Conns : \E i \in 1..MaxMsgs : WorkerReturn(c, i)
  \/ \E c \in Conns : \E i \in 1..MaxMsgs : WorkerRaise(c, i)
  \/ \E c \in Conns : \E i \in 1..MaxMsgs : WorkerStall(c, i)
  \/ \E c \in Conns : GetChunk(c)
  \/ \E c \in Conns : GetDone(c)
  \/ \E c \in Conns : GetError(c)
  \/ \E c \in Conns : BlockOnGet(c)
  \/ \E c \in Conns : Tick(c)
  \/ \E c \in Conns : Timeout(c)
  \/ \E c \in Conns : BlockOnJoin(c)
  \/ \E c \in Conns : Join(c)

Spec == Init /\ [][Next]_vars

\* ---------------------------------------------- the config specification
\* A request's config object arrives ...
ConfigInit ==
  /\ ServerInit
  /\ config_data \in ConfigInputs
  /\ config = <<>>
  /\ NoClient

\* ... and "config = TTSConfig(config_data)" runs
BuildConfig ==
  /\ config = <<>>
  /\ config' = <<TTSConfig(config_data)>>
  /\ UNCHANGED <<client, config_data, server, tts_handler, open, inbox, nmsgs, pc, loop,
                 cur, tasks, out, waited>>

ConfigNext == BuildConfig

ConfigSpec == ConfigInit /\ [][ConfigNext]_vars

\* ------------------------------------------------ KaniTTSClient (client side)
\* What stream_tts_request does with the frames it receives after it has sent
\* its request.  A frame is the text on the wire: json says whether json.loads
\* accepts it, audio is base64 text, metadata the chunk's metadata object.
MaxRx == 4

B64Encode(bytes) == [b64 |-> bytes]

\* base64.b64decode(audio_b64)
B64Decode(text) == text.b64

Frame(json, type, status, audio, metadata) ==
  [json |-> json, type |-> type, status |-> status, audio |-> audio,
   metadata |-> metadata]

\* a chunk of k samples as the server writes it (_stream_audio): 2k bytes
ChunkFrame(k) ==
  Frame(TRUE, "tts_stream_chunk", "streaming",
        B64Encode([i \in 1..(2 * k) |-> i % 2]),
        [chunk_size |-> 2 * k, duration |-> <<k, SAMPLE_RATE>>,
         sample_rate |-> SAMPLE_RATE, channels |-> 1])

CompleteFrame ==
  Frame(TRUE, "tts_stream_complete", "completed", B64Encode(<<>>), <<>>)

\* _send_error's envelope
ErrorFrame == Frame(TRUE, "tts_response", "error", B64Encode(<<>>), <<>>)

\* a tts_response that is not an error
SuccessFrame == Frame(TRUE, "tts_response", "success", B64Encode(<<>>), <<>>)

\* text that is not JSON
GarbageFrame == Frame(FALSE, "", "", B64Encode(<<>>), <<>>)

ClientFrames ==
  { ChunkFrame(k) : k \in 1..MaxChunks }
    \cup { CompleteFrame, ErrorFrame, SuccessFrame, GarbageFrame }

RECURSIVE FrameSeqs(_)
FrameSeqs(n) ==
  IF n = 0 THEN { <<>> }
  ELSE FrameSeqs(n - 1)
         \cup { Append(q, m) : q \in { x \in FrameSeqs(n - 1) : Len(x) = n - 1 },
                               m \in ClientFrames }

\* the server side, which the client's steps leave alone
server_side == <<server, tts_handler, open, inbox, nmsgs, pc, loop, cur, tasks,
                 out, request_config, waited>>

\* the request has been sent (line 109); the frames that will arrive and the
\* way the connection ends after them are the environment's choice
ClientInit ==
  /\ ServerInit
  /\ config_data = <<>>
  /\ config = <<>>
  /\ rx \in FrameSeqs(MaxRx)
  /\ closing \in {"ok", "error"}
  /\ seen = <<>>
  /\ calls = <<>>
  /\ result = "pending"

\* one iteration of "async for message in self.websocket" takes the next frame
Receives(m) ==
  /\ result = "pending"
  /\ rx # <<>>
  /\ m = Head(rx)
  /\ rx' = Tail(rx)
  /\ seen' = Append(seen, m)
  /\ UNCHANGED <<closing, server_side>>

\* the async for ends without an exception and the function has no return
\* statement after it
NormalEnd == "None"

ClientChunkTwice ==
  \E m \in ClientFrames :
    /\ Receives(m)
    /\ m.json /\ m.type = "tts_stream_chunk" /\ m.status = "streaming"
    /\ calls' = calls \o << [audio_bytes |-> B64Decode(m.audio),
                              metadata |-> m.metadata],
                            [audio_bytes |-> B64Decode(m.audio),
                              metadata |-> m.metadata] >>
    /\ UNCHANGED result

\* lines 117-130: a chunk whose status is "streaming" is decoded and handed
\* to chunk_callback
ClientChunk ==
  \E m \in ClientFrames :
    /\ Receives(m)
    /\ m.json /\ m.type = "tts_stream_chunk" /\ m.status = "streaming"
    /\ calls' = Append(calls, [audio_bytes |-> B64Decode(m.audio),
                               metadata |-> m.metadata])
    /\ UNCHANGED result

\* lines 132-135: return True
ClientComplete ==
  \E m \in ClientFrames :
    /\ Receives(m)
    /\ m.json /\ m.type = "tts_stream_complete"
    /\ result' = "True"
    /\ UNCHANGED calls

\* lines 137-141 and 146-148: an error response raises, except Exception
\* returns False
ClientError ==
  \E m \in ClientFrames :
    /\ Receives(m)
    /\ m.json /\ m.type = "tts_response" /\ m.status = "error"
    /\ result' = "False"
    /\ UNCHANGED calls

\* no branch of the if/elif chain acts: the loop goes on
ClientIgnore ==
  \E m \in ClientFrames :
    /\ Receives(m)
    /\ m.json
    /\ \/ m.type = "tts_stream_chunk" /\ m.status # "streaming"
       \/ m.type = "tts_response" /\ m.status # "error"
       \/ m.type \notin {"tts_stream_chunk", "tts_stream_complete",
                         "tts_response"}
    /\ UNCHANGED <<calls, result>>

\* line 115: json.loads raises, except Exception returns False
ClientUndecodable ==
  \E m \in ClientFrames :
    /\ Receives(m)
    /\ ~m.json
    /\ result' = "False"
    /\ UNCHANGED calls

\* lines 143-145: the iterator raises ConnectionClosed when the connection was
\* closed with an error
ClientClosedError ==
  /\ result = "pending"
  /\ rx = <<>>
  /\ closing = "error"
  /\ result' = "False"
  /\ UNCHANGED <<rx, closing, seen, calls, server_side>>

\* the iterator ends when the connection was closed normally (1000 or 1001),
\* and the function runs off its end
ClientClosedOk ==
  /\ result = "pending"
  /\ rx = <<>>
  /\ closing = "ok"
  /\ result' = NormalEnd
  /\ UNCHANGED <<rx, closing, seen, calls, server_side>>

ClientNext ==
  \/ ClientChunk
  \/ ClientComplete
  \/ ClientError
  \/ ClientIgnore
  \/ ClientUndecodable
  \/ ClientClosedError
  \/ ClientClosedOk

ClientSpec == ClientInit /\ [][ClientNext]_vars

\* ------------------------------------------------- vocabulary of the claims
IsChunk(m) == m.type = "tts_stream_chunk"
IsComplete(m) == m.type = "tts_stream_complete"
IsError(m) == m.type = "tts_response" /\ m.status = "error"
IsSuccess(m) == m.type = "tts_response" /\ m.status = "success"

\* the messages sent on c while its r-th inbound message was being processed
Replies(c, r) == SelectSeq(out[c], LAMBDA m : m.req = r)
ChunkReplies(c, r) == SelectSeq(out[c], LAMBDA m : m.req = r /\ IsChunk(m))

StreamTasks == { <<c, i>> \in Conns \X (1..MaxMsgs) :
                   i \in DOMAIN tasks[c] /\ tasks[c][i].kind = "stream" }
FullTasks == { <<c, i>> \in Conns \X (1..MaxMsgs) :
                 i \in DOMAIN tasks[c] /\ tasks[c][i].kind = "full" }

\* the handler of task i of c has returned to the read loop
Returned(c, i) == i < Len(tasks[c]) \/ (i = Len(tasks[c]) /\ pc[c] = "recv")

\* a send of the current request of c has raised ConnectionClosed
TransportFailed(c) == pc[c] \in {"unwind", "closed"}

\* chunk events of a queue
ChunkEvents(q) == SelectSeq(q, LAMBDA ev : ev.tag = "chunk")

\* ----------------------------------------------------------------------- C1
\* C1: the messages sent for a streaming request with a text are
\* tts_stream_chunk messages followed by at most one terminal message, which
\* is a tts_stream_complete or an error envelope; once the handler has
\* returned there is exactly one terminal message; a tts_stream_complete is
\* sent only when the Generator returned and every chunk was sent, an error
\* envelope only after a timeout or a Generator failure.
C1_StreamResponseShape ==
  \A p \in StreamTasks :
    LET c == p[1]
        t == tasks[c][p[2]]
        s == Replies(c, t.req)
    IN  /\ \A j \in 1..Len(s) :
             \/ IsChunk(s[j])
             \/ j = Len(s) /\ (IsComplete(s[j]) \/ IsError(s[j]))
        /\ Returned(c, p[2]) => Len(s) >= 1 /\ ~IsChunk(Last(s))
        /\ \A j \in 1..Len(s) :
             /\ IsComplete(s[j]) => t.gen = "returned" /\ j = Len(t.chunks) + 1
             /\ IsError(s[j]) => t.timedout \/ t.gen = "raised"

\* a stream that completed after two chunks, and a stream that an error
\* interrupted after one chunk
C1_Witness ==
  \E c1, c2 \in Conns :
    /\ c1 # c2 /\ pc[c1] = "recv" /\ pc[c2] = "recv"
    /\ Len(tasks[c1]) = 1 /\ Len(tasks[c2]) = 1
    /\ Len(out[c1]) = 3 /\ IsChunk(out[c1][2]) /\ IsComplete(out[c1][3])
    /\ Len(out[c2]) = 2 /\ IsChunk(out[c2][1]) /\ IsError(out[c2][2])

\* ----------------------------------------------------------------------- C2
\* the chunk_queue.get call of c is in progress on an empty queue, or its
\* gen_thread.join call is in progress on a live thread
WaitingForBridge(c) ==
  /\ loop = c
  /\ \/ pc[c] = "get" /\ Task(c).q = <<>>
     \/ pc[c] \in {"join", "unwind"} /\ ~ThreadJoined(Task(c))

PingPending(c) ==
  /\ pc[c] = "recv"
  /\ inbox[c] # <<>>
  /\ Head(inbox[c]).valid
  /\ Head(inbox[c]).type = "ping"

\* C2: while the handler of one connection waits for the next event of its
\* stream or joins its worker, a ping that has arrived on another connection
\* can be answered at once, without the first connection's next event,
\* timeout or join.
C2_OtherConnectionsServiced ==
  \A c1, c2 \in Conns :
    (c1 # c2 /\ WaitingForBridge(c1) /\ PingPending(c2)) => ENABLED ReceivePing(c2)

\* ----------------------------------------------------------------------- C3
GenerateInProgress(t) == t.gen \in {"running", "stalled"}

\* C3: a Generator call in progress runs on a worker thread and never on the
\* event-loop thread, for both kinds of request, so that a ping that has
\* arrived on another connection can be answered while a tts_request is
\* being generated.
C3_GenerateOffLoop ==
  /\ \A c \in Conns : \A i \in DOMAIN tasks[c] :
       GenerateInProgress(tasks[c][i]) => tasks[c][i].thread = "worker"
  /\ \A c1, c2 \in Conns :
       (c1 # c2 /\ pc[c1] = "generate" /\ PingPending(c2)) => ENABLED ReceivePing(c2)

\* ----------------------------------------------------------------------- C4
\* chunk events the consumer of a stream has taken from its queue so far
Dequeued(t) == Len(t.chunks) - Len(ChunkEvents(t.q))

\* C4: the tts_stream_chunk messages of a stream are, in order, the PCM16
\* conversions of the first chunks its worker pushed: one message for every
\* chunk event taken from the queue (one less when the send of the last one
\* raised), each carrying that chunk's samples and duration, none duplicated,
\* skipped or reordered.
C4_ChunksInPushOrder ==
  \A p \in StreamTasks :
    LET c == p[1]
        t == tasks[c][p[2]]
        sent == ChunkReplies(c, t.req)
    IN  /\ Len(sent) \in {Dequeued(t), Dequeued(t) - 1}
        /\ ~TransportFailed(c) => Len(sent) = Dequeued(t)
        /\ \A j \in 1..Len(sent) :
             /\ j <= Len(t.chunks)
             /\ sent[j].audio \in PCM16Arrays(t.chunks[j])
             /\ sent[j].dur = <<Len(t.chunks[j]), SAMPLE_RATE>>

\* a stream whose two chunks both went out, in push order, before it ended
C4_Witness ==
  \E c \in Conns :
    /\ pc[c] = "recv" /\ Len(tasks[c]) = 1 /\ Task(c).kind = "stream"
    /\ Len(Task(c).chunks) = 2
    /\ Len(ChunkReplies(c, Task(c).req)) = 2
    /\ Len(out[c][1].audio) = 1 /\ Len(out[c][2].audio) = 2

\* ----------------------------------------------------------------------- C5
\* a generation of c that is still open: its worker thread is alive, or (full
\* request) its Generator call is in progress
OpenTask(t) == t.alive \/ (t.kind = "full" /\ GenerateInProgress(t))

\* C5: a connection has at most one open generation; none is open while the
\* coroutine awaits the next message or after it has ended, so a streaming
\* handler returns only after its worker has been joined; the messages of a
\* connection are sent in the order of the requests they answer, and none
\* answers a later request while an earlier generation is open.
C5_OneTaskPerConnection ==
  \A c \in Conns :
    /\ Cardinality({ i \in DOMAIN tasks[c] : OpenTask(tasks[c][i]) }) <= 1
    /\ pc[c] \in {"recv", "closed"} => \A i \in DOMAIN tasks[c] : ~OpenTask(tasks[c][i])
    /\ \A i \in DOMAIN tasks[c] : i < Len(tasks[c]) => ~OpenTask(tasks[c][i])
    /\ \A j, k \in DOMAIN out[c] : j < k => out[c][j].req <= out[c][k].req
    /\ \A i \in DOMAIN tasks[c] : \A k \in DOMAIN out[c] :
         out[c][k].req > tasks[c][i].req => ~OpenTask(tasks[c][i])

\* a second stream runs on a connection whose first stream has been answered
C5_Witness ==
  \E c \in Conns :
    /\ Len(tasks[c]) = 2
    /\ tasks[c][1].kind = "stream" /\ tasks[c][2].kind = "stream"
    /\ tasks[c][2].alive
    /\ \E k \in DOMAIN out[c] : out[c][k].req = 2

\* ----------------------------------------------------------------------- C6
TimeoutEnvelope(r) == ErrorEnvelope("Generation timeout", r)

\* C6: once the consumer's wait has timed out, the only message of the request
\* that is not a chunk is the "Generation timeout" error envelope, it is sent
\* once and is the last message of the request (sent whenever the peer still
\* listens), whatever the worker pushes afterwards.
C6_TimeoutEndsStream ==
  \A p \in StreamTasks :
    LET c == p[1]
        t == tasks[c][p[2]]
        s == Replies(c, t.req)
    IN  t.timedout =>
          /\ \A j \in 1..Len(s) :
               IsChunk(s[j]) \/ (j = Len(s) /\ s[j] = TimeoutEnvelope(t.req))
          /\ ~TransportFailed(c) => Len(s) >= 1 /\ Last(s) = TimeoutEnvelope(t.req)

\* after the timeout was reported the worker pushed a chunk and its done
\* sentinel, the handler has returned, and the error is still the last message
C6_Witness ==
  \E c \in Conns :
    /\ pc[c] = "recv" /\ Len(tasks[c]) = 1
    /\ Task(c).timedout /\ Task(c).gen = "returned"
    /\ Len(Task(c).q) = 2
    /\ out[c] # <<>> /\ Last(out[c]) = TimeoutEnvelope(1)

\* ----------------------------------------------------------------------- C7
\* some step of the worker of c's current stream is possible
WorkerCanStep(c) ==
  \/ ENABLED WorkerSink(c, Len(tasks[c]))
  \/ ENABLED WorkerReturn(c, Len(tasks[c]))
  \/ ENABLED WorkerRaise(c, Len(tasks[c]))

\* C7: after a stream has ended with a timeout or a generation error, the
\* handler gets back to the read loop: while it stands in the finally clause
\* with the event-loop thread at its disposal, either the join can return or
\* the worker can still take a step towards its end, whatever the worker did
\* after the timeout.
C7_ErrorReturnsToIdle ==
  \A c \in Conns :
    (/\ pc[c] = "join"
     /\ loop \in {0, c}
     /\ Task(c).timedout \/ Task(c).gen = "raised")
    => (ENABLED Join(c) \/ WorkerCanStep(c))

C9_DurationMatchesSamples ==
  \A c \in Conns : \A k \in DOMAIN out[c] :
    IsSuccess(out[c][k]) =>
      out[c][k].dur[1] * SAMPLE_RATE = Len(out[c][k].audio) * out[c][k].dur[2]

\* ---------------------------------------------------------------------- C10
\* the samples of all tts_stream_chunk messages of a request, in receipt order
RECURSIVE ConcatAudio(_)
ConcatAudio(ms) == IF ms = <<>> THEN <<>> ELSE Head(ms).audio \o ConcatAudio(Tail(ms))

\* a 16-bit value v is the sample s (s / SampleDen) scaled by 32767, to
\* within one unit
SamePcm(v, s) ==
  /\ v * SampleDen - s * PCM_SCALE < SampleDen
  /\ s * PCM_SCALE - v * SampleDen < SampleDen

\* C10: a streaming request and a full request whose Generator calls returned
\* with the same chunks agree: the stream ends with tts_stream_complete
\* exactly if the full request is answered with success, and then the
\* samples of the stream's chunk messages, in order, are the samples of the
\* full response.
C10_StreamEqualsFull ==
  \A ps \in StreamTasks : \A pf \in FullTasks :
    LET st == tasks[ps[1]][ps[2]]
        ft == tasks[pf[1]][pf[2]]
        ss == Replies(ps[1], st.req)
        fs == Replies(pf[1], ft.req)
        streamed == ConcatAudio(ChunkReplies(ps[1], st.req))
    IN  (/\ st.gen = "returned" /\ ft.gen = "returned"
         /\ st.chunks = ft.chunks
         /\ Returned(ps[1], ps[2]) /\ Returned(pf[1], pf[2])
         /\ ~st.timedout)
        => /\ IsComplete(Last(ss)) <=> IsSuccess(Last(fs))
           /\ IsSuccess(Last(fs)) =>
                /\ Len(streamed) = Len(Last(fs).audio)
                /\ \A j \in 1..Len(streamed) : SamePcm(streamed[j], Last(fs).audio[j])

\* ------------------------------------------- steps of the read loop (claims)
IsPong(m) == m.type = "pong"

\* in this step the read loop of c takes its next message, Head(inbox[c])
Processes(c) == cur'[c] = cur[c] + 1

\* in this step exactly msg is sent on c and the coroutine awaits the next message
Answered(c, msg) ==
  out'[c] = Append(out[c], msg) /\ pc'[c] = "recv" /\ open'[c]

\* in this step the only send on c finds the peer gone: nothing is sent and
\* the coroutine ends
PeerGone(c) == out'[c] = out[c] /\ pc'[c] = "closed" /\ ~open'[c]

\* some pong sent so far carries tts_initialized = true
SomePongTrue ==
  \E c \in Conns : \E k \in DOMAIN out[c] : IsPong(out[c][k]) /\ out[c][k].init

\* ---------------------------------------------------------------------- C11
C11_Step ==
  /\ \A c \in Conns :
       (Processes(c) /\ Head(inbox[c]).valid /\ Head(inbox[c]).type = "ping")
         => \/ /\ Len(out'[c]) = Len(out[c]) + 1
               /\ Answered(c, Last(out'[c]))
               /\ IsPong(Last(out'[c]))
               /\ Last(out'[c]).init = initialized
               /\ Last(out'[c]).req = cur'[c]
            \/ PeerGone(c)
  /\ \A c \in Conns :
       Len(SelectSeq(out'[c], IsPong)) > Len(SelectSeq(out[c], IsPong))
         => Processes(c) /\ Head(inbox[c]).valid /\ Head(inbox[c]).type = "ping"
  /\ initialized => initialized'
  /\ initialized' => generator' >= 1 /\ player' = generator'
  /\ SomePongTrue =>
       \A c \in Conns : \A k \in DOMAIN out'[c] : IsPong(out'[c][k]) => out'[c][k].init

\* C11: a step that processes a ping sends exactly one message, the pong
\* carrying the value tts_handler.initialized has at that moment (nothing
\* when the peer is gone), and pongs are sent in no other step; the flag is
\* true only when generator and player have been built and never goes back to
\* false; once a pong has carried true, no pong on any connection carries false.
C11_PongReflectsInitialized == [][C11_Step]_vars

\* both connections have been answered a pong carrying true
C11_Witness ==
  \A c \in Conns :
    Len(out[c]) = 1 /\ IsPong(out[c][1]) /\ out[c][1].init /\ pc[c] = "recv"

\* ---------------------------------------------------------------------- C12
\* Head(inbox[c]) is a tts_request or tts_stream_request without a text
NoTextNext(c) ==
  /\ Head(inbox[c]).valid
  /\ Head(inbox[c]).type \in {"tts_request", "tts_stream_request"}
  /\ ~Head(inbox[c]).hasText

\* the read loop of c can take the message that waits in inbox[c]
CanProcessNext(c) ==
  \/ ENABLED ReceiveInvalid(c)
  \/ ENABLED ReceivePing(c)
  \/ ENABLED ReceiveUnknown(c)
  \/ ENABLED ReceiveNoText(c)
  \/ ENABLED ReceiveTts(c)
  \/ ENABLED ReceiveStream(c)

NoTextReply(r) == ErrorEnvelope("No text provided", r)

C12_Step ==
  \A c \in Conns :
    /\ (Processes(c) /\ NoTextNext(c)) =>
         /\ Answered(c, NoTextReply(cur'[c])) \/ PeerGone(c)
         /\ UNCHANGED <<tasks, tts_handler>>
    /\ (/\ out[c] # <<>> /\ Last(out[c]) = NoTextReply(cur[c])
        /\ pc[c] = "recv" /\ inbox[c] # <<>> /\ loop = 0)
         => CanProcessNext(c)

\* C12: a step that processes a tts_request or tts_stream_request without a
\* text sends exactly one message, the error envelope "No text provided"
\* (nothing when the peer is gone), starts no generation and leaves the
\* connection open with the coroutine awaiting the next message; the message
\* that follows on the connection is then processed as soon as the event-loop
\* thread is free.
C12_NoTextRejected == [][C12_Step]_vars

\* a request without a text was refused and the ping after it answered
C12_Witness ==
  \E c \in Conns :
    /\ Len(out[c]) = 2
    /\ out[c][1] = NoTextReply(1)
    /\ IsPong(out[c][2]) /\ out[c][2].req = 2

\* ---------------------------------------------------------------------- C13
\* C13: a step that processes a message that is not valid JSON sends exactly
\* one message, the error envelope "Invalid JSON format" (nothing when the
\* peer is gone), and leaves the coroutine awaiting the next message.
C13_InvalidJsonReported ==
  [][\A c \in Conns :
       (Processes(c) /\ ~Head(inbox[c]).valid) =>
         \/ Answered(c, ErrorEnvelope("Invalid JSON format", cur'[c]))
         \/ PeerGone(c)]_vars

\* ---------------------------------------------------------------------- C14
\* Head(inbox[c]) fails to decode or has a type the dispatch does not know
ProtocolErrorNext(c) ==
  \/ ~Head(inbox[c]).valid
  \/ Head(inbox[c]).type \notin {"tts_request", "tts_stream_request", "ping"}

C14_Step ==
  \A c \in Conns :
    (Processes(c) /\ ProtocolErrorNext(c)) =>
      /\ \/ /\ Len(out'[c]) = Len(out[c]) + 1
            /\ Answered(c, Last(out'[c]))
            /\ IsError(Last(out'[c]))
            /\ Last(out'[c]).req = cur'[c]
         \/ PeerGone(c)
      /\ UNCHANGED <<tasks, tts_handler, server>>
      /\ \A d \in Conns \ {c} :
           out'[d] = out[d] /\ pc'[d] = pc[d] /\ open'[d] = open[d]

\* C14: a step that processes a message that fails to decode or whose type is
\* unknown sends exactly one message, an error envelope (nothing when the
\* peer is gone), and changes nothing else: no generation is started or
\* advanced, generator, player and the initialization flag keep their values,
\* the coroutine awaits the next message on the open connection, and the
\* other connections are untouched.
C14_ProtocolErrorChangesNothing == [][C14_Step]_vars

\* a connection was answered two error envelopes, one for undecodable bytes
\* and one for an unknown type, and no generation was ever started on it
C14_Witness ==
  \E c \in Conns :
    /\ Len(out[c]) = 2 /\ IsError(out[c][1]) /\ IsError(out[c][2])
    /\ out[c][1].message # out[c][2].message
    /\ "Unknown message type" \in {out[c][1].message, out[c][2].message}
    /\ tasks[c] = <<>> /\ pc[c] = "recv" /\ open[c]

\* ---------------------------------------------------------------------- C15
AllTasks == { <<c, i>> \in Conns \X (1..MaxMsgs) : i \in DOMAIN tasks[c] }

\* the error envelopes sent on c for its r-th message
ErrorReplies(c, r) == SelectSeq(out[c], LAMBDA m : m.req = r /\ IsError(m))

\* the message text carries the reason e of a Generator failure
CarriesReason(message, e) ==
  \/ message = e
  \/ e = "out of memory" /\ message = "Generation error: out of memory"
  \/ e = "model failure" /\ message = "Generation error: model failure"

\* C15 as stated: every request whose Generator call raised, and whose handler
\* has returned, was answered one error envelope that carries the reason of
\* the failure.
C15_Original ==
  \A p \in AllTasks :
    LET c == p[1]
        t == tasks[c][p[2]]
        errs == ErrorReplies(c, t.req)
    IN  (t.gen = "raised" /\ Returned(c, p[2])) =>
          Len(errs) = 1 /\ CarriesReason(errs[1].message, t.reason)

\* C15 (amended): a failure raised inside the Generator call never ends the
\* server or the coroutine of the connection, which ends only when the peer
\* has gone. A streaming worker that catches it pushes the error sentinel
\* with the reason as its last event and ends. At most one error envelope is
\* sent for the request, exactly one once the handler has returned, and it
\* carries the reason of the failure unless the consumer's wait had timed
\* out before: then the envelope is the "Generation timeout" one and the
\* error sentinel stays in the queue, unreported.
C15_GeneratorFailureReported ==
  \A p \in AllTasks :
    LET c == p[1]
        t == tasks[c][p[2]]
        errs == ErrorReplies(c, t.req)
    IN  t.gen = "raised" =>
          /\ server = "serving"
          /\ pc[c] = "closed" => ~open[c]
          /\ t.kind = "stream" =>
               /\ ~t.alive
               /\ Last(t.pushed).tag = "error" /\ Last(t.pushed).data = t.reason
          /\ Len(errs) <= 1
          /\ Returned(c, p[2]) => Len(errs) = 1
          /\ (errs # <<>> /\ ~t.timedout) => CarriesReason(errs[1].message, t.reason)
          /\ (errs # <<>> /\ t.timedout) =>
               /\ errs[1] = TimeoutEnvelope(t.req)
               /\ t.q # <<>> /\ Last(t.q).tag = "error"

\* a stream whose Generator call raised after a chunk was answered the chunk
\* and the error envelope with the reason, and the ping that followed on the
\* connection was answered
C15_Witness ==
  \E c \in Conns :
    /\ Len(tasks[c]) = 1 /\ Task(c).kind = "stream"
    /\ Task(c).gen = "raised" /\ Task(c).reason = "model failure"
    /\ Len(out[c]) = 3
    /\ IsChunk(out[c][1])
    /\ IsError(out[c][2]) /\ out[c][2].message = "Generation error: model failure"
    /\ IsPong(out[c][3])

\* ---------------------------------------------------------------------- C16
\* positions of the terminal sentinels among the events a worker pushed
Sentinels(t) == { k \in DOMAIN t.pushed : t.pushed[k].tag \in {"done", "error"} }

\* C16: among the events a streaming worker has pushed there is at most one
\* terminal sentinel and it is the last event; there is none while the
\* Generator call has neither returned nor raised, and exactly one afterwards:
\* done when it returned, error when it raised.
C16_OneTerminalSentinel ==
  \A p \in StreamTasks :
    LET t == tasks[p[1]][p[2]]
    IN  /\ Cardinality(Sentinels(t)) <= 1
        /\ \A k \in Sentinels(t) : k = Len(t.pushed)
        /\ t.gen \in {"running", "stalled"} => Sentinels(t) = {}
        /\ t.gen = "returned" =>
             Sentinels(t) # {} /\ Last(t.pushed).tag = "done"
        /\ t.gen = "raised" =>
             Sentinels(t) # {} /\ Last(t.pushed).tag = "error"

\* one worker pushed two chunks and done, another a chunk and error
C16_Witness ==
  \E p1, p2 \in StreamTasks :
    LET t1 == tasks[p1[1]][p1[2]]
        t2 == tasks[p2[1]][p2[2]]
    IN  /\ Len(t1.pushed) = 3 /\ t1.pushed[3].tag = "done"
        /\ Len(t2.pushed) = 2 /\ t2.pushed[2].tag = "error"

\* ---------------------------------------------------------------------- C17
\* the current generation of c after the step
TaskAfter(c) == tasks'[c][Len(tasks[c])]

\* in this step the consumer of c's stream gets queue.Empty
TimesOut(c) == pc[c] = "get" /\ ~Task(c).timedout /\ TaskAfter(c).timedout

\* in this step the consumer of c's stream takes the error sentinel
DequeuesError(c) ==
  /\ pc[c] = "get"
  /\ Task(c).q # <<>> /\ Head(Task(c).q).tag = "error"
  /\ TaskAfter(c).q = Tail(Task(c).q)

\* in this step msg is sent on c, or the send finds the peer gone; either way
\* the consumer goes to the finally clause
ReportsThenJoins(c, msg) ==
  \/ out'[c] = Append(out[c], msg) /\ pc'[c] = "join"
  \/ out'[c] = out[c] /\ pc'[c] = "unwind" /\ ~open'[c]

C17_Step ==
  \A c \in Conns :
    /\ TimesOut(c) => ReportsThenJoins(c, TimeoutEnvelope(cur[c]))
    /\ DequeuesError(c) =>
         \E m \in {"Generation error: out of memory",
                    "Generation error: model failure"} :
           /\ CarriesReason(m, Task(c).reason)
           /\ ReportsThenJoins(c, ErrorEnvelope(m, cur[c]))
    /\ (pc[c] = "get" /\ pc'[c] # "get") => pc'[c] \in {"join", "unwind"}
    /\ pc[c] \in {"join", "unwind"} =>
         /\ out'[c] = out[c]
         /\ Len(TaskAfter(c).q) >= Len(Task(c).q)
         /\ pc'[c] # pc[c] =>
              /\ ~Task(c).alive
              /\ pc'[c] = IF pc[c] = "join" THEN "recv" ELSE "closed"

\* C17: the step in which the consumer times out, or takes the error sentinel,
\* sends the corresponding error envelope (if the peer still listens) and
\* leads to the finally clause; the drain loop is left for the finally clause
\* only, also after done and after a send that raised; in the finally clause
\* the consumer takes nothing from the queue and sends nothing, and it leaves
\* it - back to the read loop, or out of it when a send had raised - only
\* once the worker thread has ended.
C17_JoinBeforeReturn == [][C17_Step]_vars

\* after a timeout the consumer is blocked in join while the live worker has
\* pushed a chunk that nobody takes
C17_Witness ==
  \E c \in Conns :
    /\ pc[c] = "join" /\ loop = c
    /\ Task(c).timedout /\ Task(c).alive
    /\ Len(Task(c).q) = 1
    /\ Last(out[c]) = TimeoutEnvelope(cur[c])

\* ---------------------------------------------------------------------- C18
\* in this step a handler of c calls initialize(): it takes a request with a text
CallsInitialize(c) ==
  /\ Processes(c)
  /\ Head(inbox[c]).valid
  /\ Head(inbox[c]).type \in {"tts_request", "tts_stream_request"}
  /\ Head(inbox[c]).hasText

C18_Step ==
  /\ generator <= 1 /\ generator' <= 1
  /\ player <= generator /\ player' <= generator'
  /\ initialized => UNCHANGED tts_handler
  /\ \A c \in Conns : CallsInitialize(c) => UNCHANGED tts_handler
  /\ generator' # generator => server = "starting"

\* C18: over all calls of initialize(), by main and by the handlers of all
\* connections, TTSGenerator and LLMAudioPlayer are constructed at most
\* once, by main before the first connection is served, and every call made
\* once the flag is set leaves generator, player and the flag as they are.
C18_InitializedAtMostOnce == [][C18_Step]_vars

\* the handlers of both connections have called initialize() after main did,
\* and the generator is still the first one built
C18_Witness ==
  /\ \A c \in Conns : Len(tasks[c]) = 1
  /\ generator = 1 /\ player = 1 /\ initialized

\* ---------------------------------------------------------------------- C19
\* the default the claim names for config field f
C19_Default(f) ==
  CASE f = "temperature" -> "0.6"
    [] f = "max_tokens" -> 1200
    [] f = "top_p" -> "0.95"
    [] f = "chunk_size" -> 25
    [] f = "lookback_frames" -> 15
    [] f = "language" -> "spanish"
    [] f = "emotion" -> "neutral"
    [] f = "speed" -> "1.0"
    [] f = "voice_id" -> "default"

\* C19: for every subset of the nine config fields a request specifies, with
\* or without an unknown extra field, TTSConfig can be built, and the result
\* has exactly the nine fields: each specified field with the request's
\* value, each unspecified field with its default.
C19_ConfigCompletedWithDefaults ==
  /\ config = <<>> => ENABLED BuildConfig
  /\ config # <<>> =>
       /\ DOMAIN config[1] = ConfigFields
       /\ \A f \in ConfigFields :
            config[1][f] = IF f \in DOMAIN config_data
                           THEN config_data[f] ELSE C19_Default(f)

\* a config built from a request that specifies two of the nine fields and an
\* unknown one
C19_Witness ==
  /\ config # <<>>
  /\ DOMAIN config_data = {"language", "chunk_size", UnknownField}
  /\ config[1].language = "english" /\ config[1].chunk_size = 10
  /\ config[1].top_p = "0.95" /\ config[1].voice_id = "default"

\* ---------------------------------------------------------------------- C20
\* v is what clamping to [-1.0, 1.0] before scaling allows for the sample s
\* (s / SampleDen): within [-32767, 32767], and the nearest end of that range
\* when s lies outside [-1.0, 1.0]
ClampedPcm(v, s) ==
  /\ -PCM_SCALE <= v /\ v <= PCM_SCALE
  /\ s > SampleDen => v = PCM_SCALE
  /\ s < -SampleDen => v = -PCM_SCALE

\* C20: every 16-bit value of every tts_stream_chunk lies in [-32767, 32767],
\* and the value sent for a sample outside [-1.0, 1.0] is the end of that
\* range on the sample's side.
C20_PcmClamped ==
  \A p \in StreamTasks :
    LET t == tasks[p[1]][p[2]]
        sent == ChunkReplies(p[1], t.req)
    IN  \A j \in 1..Len(sent) : \A k \in DOMAIN sent[j].audio :
          ClampedPcm(sent[j].audio[k], t.chunks[j][k])

\* ---------------------------------------------------------------------- C21
\* a send of c's current stream has found the peer gone and the handler
\* stands in the finally clause
Dropped(c) == pc[c] = "unwind"

C21_Step ==
  \A c \in Conns :
    Dropped(c) =>
      /\ (Task(c).alive /\ Task(c).gen = "running") =>
           /\ ENABLED WorkerReturn(c, Len(tasks[c]))
           /\ ENABLED WorkerRaise(c, Len(tasks[c]))
      /\ (Task(c).alive /\ ~TaskAfter(c).alive) =>
           /\ TaskAfter(c).gen \in {"returned", "raised"}
           /\ Sentinels(TaskAfter(c)) = {Len(TaskAfter(c).pushed)}
      /\ out'[c] = out[c]
      /\ Len(tasks'[c]) = Len(tasks[c])
      /\ pc'[c] \in {"unwind", "closed"}
      /\ pc'[c] = "closed" => ~Task(c).alive

\* C21: once a send of a stream has found the peer gone, the worker of the
\* request goes on: while its Generator call runs it can still return or
\* raise, and its thread ends only by one of the two, with the terminal
\* sentinel as its last push; nothing more is sent on the connection, no
\* other generation is started on it, and the handler ends only once the
\* worker thread has ended.
C21_DroppedStreamRunsToEnd == [][C21_Step]_vars

\* the peer was gone at the first chunk; the worker went on to push a second
\* chunk and done, and the handler has joined it and ended
C21_Witness ==
  \E c \in Conns :
    /\ pc[c] = "closed" /\ out[c] = <<>>
    /\ Len(tasks[c]) = 1 /\ Task(c).kind = "stream"
    /\ ~Task(c).alive /\ Task(c).gen = "returned"
    /\ Len(Task(c).pushed) = 3 /\ Len(Task(c).q) = 2

\* ---------------------------------------------------------------------- C22
C22_Step ==
  \A c \in Conns :
    (Processes(c) /\ NoTextNext(c)) =>
      /\ UNCHANGED <<generator, player, initialized>>
      /\ UNCHANGED config
      /\ UNCHANGED tasks
      /\ pc'[c] \in {"recv", "closed"}
      /\ Len(out'[c]) = Len(out[c]) + 1 => IsError(Last(out'[c]))

\* C22: the step that takes a tts_request or tts_stream_request without a
\* text ends with the error reported (or the peer gone) and the coroutine
\* back at the read loop: generator, player and the initialization flag are
\* as before, no TTSConfig is built, and no generation of any connection is
\* created or advanced - no worker, no queue, no Generator call.
C22_RejectionHasNoEffect == [][C22_Step]_vars

\* requests without a text were rejected on both connections; no config was
\* ever built and no generation ever started
C22_Witness ==
  /\ \A c \in Conns : out[c] = <<NoTextReply(1)>> /\ tasks[c] = <<>>
  /\ config = <<>>

\* ---------------------------------------------------------------------- C23
EventTags == {"chunk", "done", "error"}

\* in this step the consumer of c's stream takes an event from its queue
Dequeues(c) ==
  /\ pc[c] = "get"
  /\ Task(c).q # <<>>
  /\ TaskAfter(c).q = Tail(Task(c).q)

C23_Step ==
  /\ \A p \in StreamTasks :
       \A k \in DOMAIN tasks[p[1]][p[2]].pushed :
         tasks[p[1]][p[2]].pushed[k].tag \in EventTags
  /\ \A c \in Conns :
       /\ TimesOut(c) =>
            /\ loop = c /\ Task(c).q = <<>> /\ waited = TimeoutTicks
            /\ TaskAfter(c).pushed = Task(c).pushed
       /\ Dequeues(c) => waited' = 0
  /\ waited' > waited =>
       /\ waited' = waited + 1
       /\ \E c \in Conns : pc[c] = "get" /\ loop = c /\ Task(c).q = <<>>

\* C23: every event a worker pushes is a chunk, done or error; the step in
\* which a consumer times out pushes nothing and is taken by a get that
\* has been blocked on the empty queue for the whole window; waiting time
\* counts only while a get is blocked on an empty queue, and every dequeue
\* sets it back to zero, so that a get times out only if no event has
\* arrived for a full window after it began.
C23_TimeoutOnlyFromEmptyWait == [][C23_Step]_vars

\* two chunks were delivered, one of them after a wait, and the consumer has
\* again waited one tick short of the window: the stream has lasted a full
\* window and has not timed out
C23_Witness ==
  \E c \in Conns :
    /\ pc[c] = "get" /\ loop = c /\ waited = TimeoutTicks - 1
    /\ Task(c).slow /\ ~Task(c).timedout
    /\ Len(ChunkReplies(c, Task(c).req)) = 2

\* ---------------------------------------------------------------------- C24
\* a message that ends the answer to an inbound message
IsTerminal(m) == IsPong(m) \/ IsSuccess(m) \/ IsError(m) \/ IsComplete(m)

\* the terminal messages sent on c for its r-th message
Terminals(c, r) == SelectSeq(out[c], LAMBDA m : m.req = r /\ IsTerminal(m))

\* the terminal message m fits the inbound message of c it answers: a
\* tts_response for a tts_request with a text, tts_stream_complete or an
\* error envelope for a tts_stream_request with a text, and a pong or an
\* error envelope for a message that started no generation
AnswerFits(c, m) ==
  /\ \A i \in DOMAIN tasks[c] :
       tasks[c][i].req = m.req =>
         IF tasks[c][i].kind = "full"
         THEN IsSuccess(m) \/ IsError(m)
         ELSE IsComplete(m) \/ IsError(m)
  /\ (\A i \in DOMAIN tasks[c] : tasks[c][i].req # m.req) => IsPong(m) \/ IsError(m)

C24_Step ==
  \A c \in Conns :
    /\ \A r \in 1..cur[c] :
         /\ Len(Terminals(c, r)) <= 1
         /\ (r < cur[c] \/ pc[c] = "recv") =>
              /\ Len(Terminals(c, r)) = 1
              /\ Last(Replies(c, r)) = Terminals(c, r)[1]
    /\ \A k \in DOMAIN out[c] : out[c][k].req \in 1..cur[c]
    /\ Processes(c) => pc[c] = "recv"
    /\ \A k \in DOMAIN out'[c] :
         k > Len(out[c]) => out'[c][k].req = cur'[c]
    /\ \A k \in DOMAIN out[c] : IsTerminal(out[c][k]) => AnswerFits(c, out[c][k])
    /\ (Processes(c) /\ Len(out'[c]) > Len(out[c])) =>
         IF Head(inbox[c]).valid /\ Head(inbox[c]).type = "ping"
         THEN IsPong(Last(out'[c])) ELSE IsError(Last(out'[c]))

\* C24: on a connection whose coroutine is at the read loop every message
\* read so far has exactly one terminal message, which is the last message
\* of its answer: a pong for a ping, a success or error tts_response for a
\* tts_request, tts_stream_complete or an error envelope for a
\* tts_stream_request, an error envelope for anything else; no inbound
\* message has more than one; the next message is read
\* only from the read loop, that is after the answer to the current one; and
\* every message sent belongs to the answer to the message being processed
\* when it is sent.
C24_OneTerminalPerMessage == [][C24_Step]_vars

\* a stream answered by a chunk and tts_stream_complete, then a ping answered
\* by a pong, on one connection
C24_Witness ==
  \E c \in Conns :
    /\ cur[c] = 2 /\ pc[c] = "recv" /\ Len(out[c]) = 3
    /\ IsChunk(out[c][1]) /\ IsComplete(out[c][2]) /\ out[c][2].req = 1
    /\ IsPong(out[c][3]) /\ out[c][3].req = 2

\* ---------------------------------------------------------------------- C25
C25_Step ==
  /\ \A c \in Conns : \A i \in DOMAIN tasks[c] :
       LET t == tasks[c][i]
           u == tasks'[c][i]
       IN  /\ Len(u.q) < Len(t.q) =>
                /\ i = Len(tasks[c]) /\ t.req = cur[c] /\ pc[c] = "get"
                /\ u.q = Tail(t.q)
                /\ \A k \in DOMAIN out'[c] : k > Len(out[c]) => out'[c][k].req = t.req
                /\ \A d \in Conns \ {c} : out'[d] = out[d]
           /\ Len(u.pushed) > Len(t.pushed) =>
                /\ t.kind = "stream"
                /\ u.q = Append(t.q, Last(u.pushed))
                /\ \A d \in Conns : \A j \in DOMAIN tasks[d] :
                     <<d, j>> # <<c, i>> => tasks'[d][j] = tasks[d][j]
                /\ out' = out
  /\ \A c \in Conns :
       (Len(out'[c]) > Len(out[c]) /\ ~IsError(Last(out'[c])) /\ pc[c] = "get") =>
         /\ Dequeues(c)
         /\ IsChunk(Last(out'[c])) =>
              /\ Head(Task(c).q).tag = "chunk"
              /\ Last(out'[c]).audio \in PCM16Arrays(Head(Task(c).q).data)
         /\ IsComplete(Last(out'[c])) => Head(Task(c).q).tag = "done"

\* C25: an event is taken only from the queue of the generation that the
\* request being processed on the connection started, and what is sent in
\* that step is sent on that connection for that request; a worker's push
\* goes to the queue of its own generation and touches no other generation
\* and no connection; every chunk or completion message sent by a consumer
\* comes from the event at the head of its own request's queue.
C25_EventsIsolatedPerRequest == [][C25_Step]_vars

\* on one connection a stream timed out and left a late event in its queue;
\* the next stream of the connection has been sent a chunk of its own, and
\* the late event is still where it was
C25_Witness ==
  \E c \in Conns :
    /\ Len(tasks[c]) = 2
    /\ tasks[c][1].kind = "stream" /\ tasks[c][1].timedout /\ tasks[c][1].q # <<>>
    /\ tasks[c][2].kind = "stream"
    /\ Len(ChunkReplies(c, 2)) = 1 /\ ChunkReplies(c, 1) = <<>>

\* ------------------------------------------------------------------ C26
IsCompleteFrame(m) == m.json /\ m.type = "tts_stream_complete"
IsErrorFrame(m) == m.json /\ m.type = "tts_response" /\ m.status = "error"
IsChunkFrame(m) == m.json /\ m.type = "tts_stream_chunk"

Terminated == result # "pending"
CompleteReceived == \E i \in 1..Len(seen) : IsCompleteFrame(seen[i])

\* C26: once stream_tts_request has terminated, it has returned True if a
\* tts_stream_complete was received and False in every other case (error
\* envelope, connection closed with or without an error, undecodable frame).
C26_TrueIffCompleteElseFalse ==
  Terminated =>
    /\ result = "True" <=> CompleteReceived
    /\ ~CompleteReceived => result = "False"

\* ------------------------------------------------------------------ C27
\* what chunk_callback is given for the chunk frame m
CallFor(m) == [audio_bytes |-> m.audio.b64, metadata |-> m.metadata]

StreamEnded ==
  \E i \in 1..Len(seen) : IsCompleteFrame(seen[i]) \/ IsErrorFrame(seen[i])

C27_Calls ==
  LET chunks == SelectSeq(seen, IsChunkFrame)
  IN  /\ Len(calls) = Len(chunks)
      /\ \A i \in 1..Len(chunks) : calls[i] = CallFor(chunks[i])

C27_Step ==
  /\ C27_Calls'
  /\ StreamEnded => calls' = calls /\ seen' = seen

InHandler(c) == cur[c] >= 1 \/ pc[c] # "recv" \/ out[c] # <<>> \/ tasks[c] # <<>>

ModelsLoaded == initialized /\ generator >= 1 /\ player >= 1

\* C28: while main() has not got past initialize(), or initialize() raised,
\* no message of any connection has been taken; whenever a message has been
\* taken or is being processed the flag is true with generator and player
\* set; and every pong sent carries tts_initialized = true.
C28_ServedOnlyAfterInitialize ==
  /\ server # "serving" => \A c \in Conns : ~InHandler(c)
  /\ server = "serving" => ModelsLoaded
  /\ \A c \in Conns : InHandler(c) => ModelsLoaded
  /\ \A c \in Conns : \A k \in DOMAIN out[c] :
       out[c][k].type = "pong" => out[c][k].init = TRUE

\* one connection is in the middle of a stream while the other has been
\* answered a pong
C28_Witness ==
  \E c, d \in Conns :
    /\ c # d
    /\ pc[c] = "get"
    /\ \E k \in DOMAIN out[d] : out[d][k].type = "pong" /\ out[d][k].init
    /\ ModelsLoaded

====
